---- MODULE Spec2Model ----
(***************************************************************************)
(* The Blockchain class of src/blockchain.js as a state machine.           *)
(*                                                                         *)
(* JavaScript runs one synchronous segment at a time: every action below   *)
(* is one such segment, from the start of a call (or the resumption of an  *)
(* await) to the next await or to the end of the call.  The calls that are *)
(* suspended at an await are kept in `calls`; what the segment that ran    *)
(* last settled a promise with, if it settled one, is kept in `last`.     *)
(*                                                                         *)
(* Strings the code parses or formats are sequences of one-character       *)
(* strings, so that split, slice, toString and parseInt are computed.      *)
(* block.js is not part of the sources: the Block operators are modelled   *)
(* from the specification of the Entry.                                    *)
(***************************************************************************)
EXTENDS Integers, Sequences, FiniteSets

VARIABLES chain, height, calls, last

vars == <<chain, height, calls, last>>

----------------------------------------------------------------------------
(* Bounds and inputs *)

\* calls suspended at an await at the same time
MaxInFlight == 2

\* entries in the chain
MaxChain == 3

\* const MesgTimeLimitSec = 5 * 60
MesgTimeLimitSec == 300

\* the readings of new Date().getTime(), in milliseconds
ClockTicks == {1000000, 1000999}

\* the readings at which the challenges that clients hold were issued
IssueTicks == {699999, 700000, 1300000}

Addresses == {<<"w", "1">>, <<"w", "2">>}

Stars == {"s1"}

\* JavaScript's undefined, where a string is expected
Undefined == <<"<undefined>">>

\* null, where a digest or a list is expected
Null == <<>>

\* undefined and null, where a block is expected
UndefinedBlock == [type |-> "undefined"]

NullBlock == [type |-> "null"]

----------------------------------------------------------------------------
(* Strings and numbers *)

Digits == <<"0", "1", "2", "3", "4", "5", "6", "7", "8", "9">>

IsDigit(c) == \E d \in 1..10 : Digits[d] = c

DigitValue(c) == (CHOOSE d \in 1..10 : Digits[d] = c) - 1

\* Number.prototype.toString of a non-negative integer
RECURSIVE ToString(_)
ToString(n) ==
    IF n < 10 THEN <<Digits[n + 1]>>
    ELSE ToString(n \div 10) \o <<Digits[(n % 10) + 1]>>

\* String.prototype.slice(0, -k)
SliceEnd(s, k) == IF Len(s) > k THEN SubSeq(s, 1, Len(s) - k) ELSE <<>>

\* new Date().getTime().toString().slice(0, -3)
ClockString(ms) == SliceEnd(ToString(ms), 3)

\* A number of the language: an integer or NaN
Num(v) == [nan |-> FALSE, v |-> v]

NaN == [nan |-> TRUE, v |-> 0]

Minus(a, b) == IF a.nan \/ b.nan THEN NaN ELSE Num(a.v - b.v)

\* a > n: false when a is NaN
GreaterThan(a, n) == ~a.nan /\ a.v > n

RECURSIVE DigitPrefix(_)
DigitPrefix(s) ==
    IF s = <<>> \/ ~IsDigit(Head(s)) THEN <<>>
    ELSE <<Head(s)>> \o DigitPrefix(Tail(s))

RECURSIVE DigitsValue(_)
DigitsValue(s) ==
    IF s = <<>> THEN 0
    ELSE DigitsValue(SubSeq(s, 1, Len(s) - 1)) * 10 + DigitValue(s[Len(s)])

\* parseInt: the leading decimal digits, NaN when there are none.  undefined
\* is first converted to the string "undefined", which has none.
ParseInt(s) ==
    IF s = Undefined \/ DigitPrefix(s) = <<>> THEN NaN
    ELSE Num(DigitsValue(DigitPrefix(s)))

\* String.prototype.split(':')
RECURSIVE Split(_)
Split(s) ==
    IF s = <<>> THEN << <<>> >>
    ELSE LET rest == Split(Tail(s))
         IN  IF Head(s) = ":" THEN << <<>> >> \o rest
             ELSE << <<Head(s)>> \o Head(rest) >> \o Tail(rest)

\* parts[k] of a JavaScript array, indexed from 0
At(parts, k) == IF k + 1 <= Len(parts) THEN parts[k + 1] ELSE Undefined

StarRegistry == <<"s", "t", "a", "r", "R", "e", "g", "i", "s", "t", "r", "y">>

\* the message requestMessageOwnershipVerification resolves with
ChallengeMessage(address, ms) ==
    address \o <<":">> \o ClockString(ms) \o <<":">> \o StarRegistry

----------------------------------------------------------------------------
(* Block: the entry of the chain *)

GenesisData == [data |-> "Genesis Block"]

StarData(address, star) == [owner |-> address, star |-> star]

\* the payload codec: the stored body of a payload
Encode(data) == <<"hex", data>>

\* a stored body that is no encoding of any payload
CorruptBody == <<"corrupt">>

\* decoding a stored body: the payload, or a DecodeError
Decode(body) ==
    IF body[1] = "hex" THEN [ok |-> TRUE, data |-> body[2]]
    ELSE [ok |-> FALSE, data |-> GenesisData]

\* new Block(data): an unsealed entry
Block(data) ==
    [hash |-> Null, height |-> 0, body |-> Encode(data), time |-> <<"0">>,
     previousBlockHash |-> Null]

\* block.isGenesisBlock(): the payload equals the genesis sentinel
isGenesisBlock(block) ==
    Decode(block.body).ok /\ Decode(block.body).data = GenesisData

\* SHA256(JSON.stringify(block)).toString(): one digest per content
SHA256(block) ==
    <<"sha256", block.hash, block.height, block.body, block.time,
      block.previousBlockHash>>

\* block.validate(): the digest of the stored fields, the hash field left
\* out, is the stored hash; a body that does not decode is invalid
validate(block) ==
    /\ Decode(block.body).ok
    /\ SHA256([block EXCEPT !.hash = Null]) = block.hash

\* block.getBData(): the decoded payload, or a rejection
getBData(block) == Decode(block.body)

\* data.owner
Owner(data) == IF "owner" \in DOMAIN data THEN data.owner ELSE Undefined

----------------------------------------------------------------------------
(* The signature verifier *)

\* a signature made by the wallet of `address` over `message`
Sign(message, address) == [message |-> message, address |-> address]

\* a signature that is no signature at all
Garbage == [message |-> <<>>, address |-> <<>>]

\* bitcoinMessage.verify(message, address, signature)
verify(message, address, signature) ==
    IF signature = Garbage THEN "throws"
    ELSE IF signature = Sign(message, address) THEN "true"
    ELSE "false"

----------------------------------------------------------------------------
(* Calls *)

NoBlock == [hash |-> Null, height |-> 0, body |-> <<"none">>, time |-> <<>>,
            previousBlockHash |-> Null]

\* a call suspended at an await: its position and the locals it still uses
NewCall(op) ==
    [op |-> op, pc |-> "start", address |-> Undefined, isVerified |-> "",
     block |-> NoBlock, i |-> 0, isValid |-> TRUE, errorLog |-> <<>>,
     error |-> "", results |-> <<>>, id |-> 0]

\* what a promise settled with.  The status "pending" is that of a promise
\* that nothing will settle any more.  For a submitStar, isVerified is what
\* the verifier answered, "" when it was not asked.  id is the identity the
\* promise had among the suspended calls, 0 when the call never suspended.
Settled(op, status, error, value) ==
    [op |-> op, status |-> status, error |-> error, value |-> value,
     isVerified |-> "", id |-> 0]

NoCall == Settled("none", "none", "", <<>>)

Remove(s, k) == SubSeq(s, 1, k - 1) \o SubSeq(s, k + 1, Len(s))

\* the appends that are suspended
Appending ==
    {k \in 1..Len(calls) : calls[k].op \in {"initializeChain", "submitStar"}}

CanSuspend == Len(calls) < MaxInFlight

\* new Promise(...): the promise of a call is an object of its own, told
\* from those of the other suspended calls by the least identity not in use
FreeId ==
    CHOOSE id \in 1..MaxInFlight :
        /\ \A k \in 1..Len(calls) : calls[k].id # id
        /\ \A j \in 1..(id - 1) : \E k \in 1..Len(calls) : calls[k].id = j

\* the call c suspends at an await
Suspend(c) == Append(calls, [c EXCEPT !.id = FreeId])

CanAppend == Len(chain) + Cardinality(Appending) < MaxChain

----------------------------------------------------------------------------
(* validateChain *)

\* the check of entry i without the entry's own validate(): the link only
CheckEntryLinkOnly(ch, i, isValid, errorLog) ==
    IF i + 1 < Len(ch) /\ ch[i + 1].hash # ch[i + 2].previousBlockHash
    THEN Append(errorLog, i)
    ELSE errorLog

\* the check of entry i with a broken link reported at the successor
CheckEntryReportsNext(ch, i, isValid, errorLog) ==
    IF ~isValid THEN Append(errorLog, i)
    ELSE IF i + 1 < Len(ch) /\ ch[i + 1].hash # ch[i + 2].previousBlockHash
         THEN Append(errorLog, i + 1)
         ELSE errorLog

\* lines 263-278: the check of entry i once block.validate() has resolved
CheckEntry(ch, i, isValid, errorLog) ==
    IF ~isValid THEN Append(errorLog, i)
    ELSE IF i + 1 < Len(ch) /\ ch[i + 1].hash # ch[i + 2].previousBlockHash
         THEN Append(errorLog, i)
         ELSE errorLog

\* the for loop of validateChain at index i: suspended at the await of
\* block.validate() when i is in the chain, resolved with errorLog otherwise
LoopFrom(c, ch, i, errorLog) ==
    IF i < Len(ch)
    THEN [c EXCEPT !.pc = "validate", !.i = i, !.isValid = validate(ch[i + 1]),
                   !.errorLog = errorLog]
    ELSE [c EXCEPT !.pc = "resolved", !.i = i, !.errorLog = errorLog]

\* validateChain(), called on its own
validateChain ==
    LET c == LoopFrom(NewCall("validateChain"), chain, 0, <<>>)
    IN  /\ IF c.pc = "resolved"
           THEN /\ calls' = calls
                /\ last' = Settled("validateChain", "resolved", "", c.errorLog)
           ELSE /\ CanSuspend
                /\ calls' = Suspend(c)
                /\ last' = NoCall
        /\ UNCHANGED <<chain, height>>

\* the resumption of validateChain after block.validate() of entry i
ValidateStep(k) ==
    LET c    == calls[k]
        log  == CheckEntry(chain, c.i, c.isValid, c.errorLog)
        next == LoopFrom(c, chain, c.i + 1, log)
    IN  /\ c.pc = "validate"
        /\ IF next.pc = "resolved" /\ c.op = "validateChain"
           THEN /\ calls' = Remove(calls, k)
                /\ last' = [Settled("validateChain", "resolved", "",
                                    next.errorLog) EXCEPT !.id = c.id]
           ELSE /\ calls' = [calls EXCEPT ![k] =
                               IF next.pc = "resolved"
                               THEN [next EXCEPT !.pc = "addBlock"]
                               ELSE next]
                /\ last' = NoCall
        /\ UNCHANGED <<chain, height>>

----------------------------------------------------------------------------
(* _addBlock *)

\* the previous hash read without the error: undefined on an empty chain
PreviousHashOrNull(ch) ==
    IF ch = <<>> THEN [threw |-> FALSE, hash |-> Null]
    ELSE [threw |-> FALSE, hash |-> ch[Len(ch)].hash]

\* the previous hash taken from the first entry instead of the last
PreviousHashOfFirst(ch) ==
    IF ch = <<>> THEN [threw |-> TRUE, hash |-> Null]
    ELSE [threw |-> FALSE, hash |-> ch[1].hash]

\* line 75: chain[chain.length - 1].hash, a TypeError on an empty chain
PreviousHash(ch) ==
    IF ch = <<>> THEN [threw |-> TRUE, hash |-> Null]
    ELSE [threw |-> FALSE, hash |-> ch[Len(ch)].hash]

\* the entry stamped and linked but left without its hash
SealUnhashed(block, ch, ms) ==
    LET stamped == [block EXCEPT !.time = ClockString(ms), !.height = Len(ch)]
        previous == PreviousHash(ch)
    IN  IF ~isGenesisBlock(stamped) /\ previous.threw
        THEN [threw |-> TRUE, block |-> stamped]
        ELSE [threw |-> FALSE,
              block |-> IF isGenesisBlock(stamped) THEN stamped
                        ELSE [stamped EXCEPT !.previousBlockHash = previous.hash]]

\* lines 72-78: the entry stamped and sealed, or the error thrown
Seal(block, ch, ms) ==
    LET stamped == [block EXCEPT !.time = ClockString(ms), !.height = Len(ch)]
        previous == PreviousHash(ch)
        linked  == IF isGenesisBlock(stamped) THEN stamped
                   ELSE [stamped EXCEPT !.previousBlockHash = previous.hash]
    IN  IF ~isGenesisBlock(stamped) /\ previous.threw
        THEN [threw |-> TRUE, block |-> stamped]
        ELSE [threw |-> FALSE, block |-> [linked EXCEPT !.hash = SHA256(linked)]]

\* _addBlock(block) up to its await of validateChain(), for the call c, when
\* the clock reads ms
AddBlockStart(c, block, ms) ==
    LET sealed == Seal(block, chain, ms)
    IN  IF sealed.threw
        THEN [c EXCEPT !.pc = "settle", !.error = "TypeError"]
        ELSE LET v == LoopFrom([c EXCEPT !.block = sealed.block], chain, 0, <<>>)
             IN  IF v.pc = "resolved" THEN [v EXCEPT !.pc = "addBlock"] ELSE v

\* the test of line 82 that lets a list of one index through
IsLongerThanOne(errorLogs) == Len(errorLogs) > 1

\* line 82: errorLogs.length > 0
IsInvalid(errorLogs) == Len(errorLogs) > 0

\* the resumption of _addBlock with the block stored at the index of its
\* height instead of pushed
_addBlockAtHeight(k) ==
    LET c == calls[k]
    IN  /\ c.pc = "addBlock"
        /\ IF IsInvalid(c.errorLog)
           THEN /\ calls' = [calls EXCEPT ![k] =
                               [c EXCEPT !.pc = "settle",
                                         !.error = "Invalid blockchain"]]
                /\ UNCHANGED <<chain, height>>
           ELSE /\ chain' = IF c.block.height < Len(chain)
                            THEN [chain EXCEPT ![c.block.height + 1] = c.block]
                            ELSE Append(chain, c.block)
                /\ height' = c.block.height
                /\ calls' = [calls EXCEPT ![k] = [c EXCEPT !.pc = "settle"]]
        /\ last' = NoCall

\* lines 82-93: the resumption of _addBlock after validateChain()
_addBlock(k) ==
    LET c == calls[k]
    IN  /\ c.pc = "addBlock"
        /\ IF IsInvalid(c.errorLog)
           THEN /\ calls' = [calls EXCEPT ![k] =
                               [c EXCEPT !.pc = "settle",
                                         !.error = "Invalid blockchain"]]
                /\ UNCHANGED <<chain, height>>
           ELSE /\ chain' = Append(chain, c.block)
                /\ height' = c.block.height
                /\ calls' = [calls EXCEPT ![k] = [c EXCEPT !.pc = "settle"]]
        /\ last' = NoCall

\* the caller that never resumes after _addBlock settled: its promise is
\* left as it is
SettleDropped(k) ==
    /\ calls[k].pc = "settle"
    /\ UNCHANGED vars

\* the resumption of the caller after _addBlock settled: submitStar resolves
\* with the block or rejects with the error (lines 166-170); initializeChain
\* returns, or lets the error reject its promise (line 41)
Settle(k) ==
    LET c == calls[k]
    IN  /\ c.pc = "settle"
        /\ calls' = Remove(calls, k)
        /\ last' = [IF c.error # ""
                    THEN Settled(c.op, "rejected", c.error, <<>>)
                    ELSE IF c.op = "submitStar"
                    THEN Settled(c.op, "resolved", "", c.block)
                    ELSE Settled(c.op, "resolved", "", <<>>)
                      EXCEPT !.isVerified = c.isVerified, !.id = c.id]
        /\ UNCHANGED <<chain, height>>

\* initializeChain() without the test of the height
InitializeChainStartUnguarded(ms) ==
    AddBlockStart(NewCall("initializeChain"), Block(GenesisData), ms)

\* initializeChain() up to its first await
InitializeChainStart(ms) ==
    IF height = -1
    THEN AddBlockStart(NewCall("initializeChain"), Block(GenesisData), ms)
    ELSE [NewCall("initializeChain") EXCEPT !.pc = "return"]

\* initializeChain()
initializeChain(ms) ==
    LET c == InitializeChainStart(ms)
    IN  /\ IF c.pc = "return"
           THEN /\ calls' = calls
                /\ last' = Settled("initializeChain", "resolved", "", <<>>)
           ELSE /\ CanSuspend /\ CanAppend
                /\ calls' = Suspend(c)
                /\ last' = NoCall
        /\ UNCHANGED <<chain, height>>

----------------------------------------------------------------------------
(* requestMessageOwnershipVerification and submitStar *)

\* requestMessageOwnershipVerification(address)
requestMessageOwnershipVerification(address, ms) ==
    /\ last' = Settled("requestMessageOwnershipVerification", "resolved", "",
                       ChallengeMessage(address, ms))
    /\ UNCHANGED <<chain, height, calls>>

\* a message that has the form "<address>:<unix_seconds>:starRegistry"
IsChallenge(message) ==
    LET parts == Split(message)
    IN  /\ Len(parts) = 3
        /\ parts[2] # <<>>
        /\ DigitPrefix(parts[2]) = parts[2]
        /\ parts[3] = StarRegistry

\* the messages a client submits: the challenges issued to it, one without
\* a time field, one whose time field is no number
Messages ==
    [address \in Addresses |->
        {ChallengeMessage(address, ms) : ms \in IssueTicks}
            \cup {address,
                  address \o <<":", "a", "b", "c", ":">> \o StarRegistry}]

AllMessages == UNION {Messages[address] : address \in Addresses}

Signatures(message) == {Sign(message, a) : a \in Addresses} \cup {Garbage}

\* line 139: parseInt(message.split(':')[1]), of each message
MessageTime == [message \in AllMessages |-> ParseInt(At(Split(message), 1))]

\* lines 140-142: parseInt(new Date().getTime().toString().slice(0, -3)), of
\* each reading of the clock
CurrentTime == [ms \in ClockTicks |-> ParseInt(ClockString(ms))]

\* line 145: currentTime - time
ElapsedTime(message, ms) == Minus(CurrentTime[ms], MessageTime[message])

\* line 146: elapsedTime > MesgTimeLimitSec
Expired(elapsedTime) == GreaterThan(elapsedTime, MesgTimeLimitSec)

\* submitStar without the check of the signature
SubmitStarStartUnverified(address, message, signature, star, ms) ==
    IF Expired(ElapsedTime(message, ms))
    THEN [NewCall("submitStar") EXCEPT !.pc = "throw",
                                       !.error = "Exceed time limit"]
    ELSE AddBlockStart([NewCall("submitStar") EXCEPT
                           !.isVerified = verify(message, address, signature)],
                       Block(StarData(address, star)), ms)

\* lines 139-166: submitStar up to its await of _addBlock, or the error it
\* throws before
SubmitStarStart(address, message, signature, star, ms) ==
    LET isVerified == verify(message, address, signature)
        c          == NewCall("submitStar")
        v          == [c EXCEPT !.isVerified = isVerified]
    IN  IF Expired(ElapsedTime(message, ms))
        THEN [c EXCEPT !.pc = "throw", !.error = "Exceed time limit"]
        ELSE IF isVerified = "throws"
        THEN [v EXCEPT !.pc = "throw", !.error = "verify threw"]
        ELSE IF isVerified # "true"
        THEN [v EXCEPT !.pc = "throw", !.error = "Message verification failed"]
        ELSE AddBlockStart(v, Block(StarData(address, star)), ms)

\* submitStar(address, message, signature, star)
submitStar(address, message, signature, star, ms) ==
    LET c == SubmitStarStart(address, message, signature, star, ms)
    IN  /\ IF c.pc = "throw"
           THEN /\ calls' = calls
                /\ last' = [Settled("submitStar", "rejected", c.error, <<>>)
                              EXCEPT !.isVerified = c.isVerified]
           ELSE /\ CanSuspend /\ CanAppend
                /\ calls' = Suspend(c)
                /\ last' = NoCall
        /\ UNCHANGED <<chain, height>>

----------------------------------------------------------------------------
(* The read operations *)

\* getChainHeight()
getChainHeight ==
    /\ last' = Settled("getChainHeight", "resolved", "", height)
    /\ UNCHANGED <<chain, height, calls>>

\* Array.prototype.find: the first entry with the hash, or undefined
FindByHash(ch, hash) ==
    IF \E i \in 1..Len(ch) : ch[i].hash = hash
    THEN ch[CHOOSE i \in 1..Len(ch) :
                ch[i].hash = hash /\ \A j \in 1..(i - 1) : ch[j].hash # hash]
    ELSE UndefinedBlock

\* line 188: block !== null
IsFound(block) == block # NullBlock

\* getBlockByHash(hash)
getBlockByHash(hash) ==
    LET block == FindByHash(chain, hash)
    IN  /\ last' = IF IsFound(block)
                   THEN Settled("getBlockByHash", "resolved", "", block)
                   ELSE Settled("getBlockByHash", "rejected",
                                "Block with the hash not found", <<>>)
        /\ UNCHANGED <<chain, height, calls>>

\* self.chain.filter((p) => p.height === height)[0]
FilterByHeight(ch, h) ==
    IF \E i \in 1..Len(ch) : ch[i].height = h
    THEN ch[CHOOSE i \in 1..Len(ch) :
                ch[i].height = h /\ \A j \in 1..(i - 1) : ch[j].height # h]
    ELSE UndefinedBlock

\* getBlockByHeight(height)
getBlockByHeight(h) ==
    LET block == FilterByHeight(chain, h)
    IN  /\ last' = Settled("getBlockByHeight", "resolved", "",
                           IF block # UndefinedBlock THEN block ELSE NullBlock)
        /\ UNCHANGED <<chain, height, calls>>

\* lines 226-232: what the promise of one entry settles with: the payload
\* when its owner is the address, null otherwise, a rejection when getBData
\* rejects
OwnedBy(block, address) ==
    LET d == getBData(block)
    IN  IF ~d.ok THEN [ok |-> FALSE, value |-> Null]
        ELSE IF Owner(d.data) = address THEN [ok |-> TRUE, value |-> <<d.data>>]
        ELSE [ok |-> TRUE, value |-> Null]

\* result.filter((value) => value != null)
RECURSIVE NotNull(_)
NotNull(result) ==
    IF result = <<>> THEN <<>>
    ELSE IF Head(result).value # Null
         THEN Head(result).value \o NotNull(Tail(result))
         ELSE NotNull(Tail(result))

\* getStarsByWalletAddress(address) up to Promise.all(allPromises)
getStarsByWalletAddress(address) ==
    /\ CanSuspend
    /\ calls' = Suspend([NewCall("getStarsByWalletAddress") EXCEPT
                           !.pc = "all",
                           !.address = address,
                           !.results = [i \in 1..Len(chain) |->
                                           OwnedBy(chain[i], address)]])
    /\ last' = NoCall
    /\ UNCHANGED <<chain, height>>

\* lines 236-239: the then of Promise.all: it runs when every promise has
\* resolved; when one rejected nothing settles the call
AllSettled(k) ==
    LET c == calls[k]
    IN  /\ c.pc = "all"
        /\ calls' = Remove(calls, k)
        /\ last' = [IF \A i \in 1..Len(c.results) : c.results[i].ok
                    THEN Settled(c.op, "resolved", "", NotNull(c.results))
                    ELSE Settled(c.op, "pending", "", <<>>)
                      EXCEPT !.id = c.id]
        /\ UNCHANGED <<chain, height>>

----------------------------------------------------------------------------
(* The specification *)

\* the constructor: an empty chain, and initializeChain() run to its await
Init ==
    /\ chain = <<>>
    /\ height = -1
    /\ \E ms \in ClockTicks :
           calls = <<[InitializeChainStart(ms) EXCEPT !.id = 1]>>
    /\ last = NoCall

Hashes == {chain[i].hash : i \in 1..Len(chain)} \cup {<<"unknown">>}

Resume ==
    \E k \in 1..Len(calls) :
        \/ ValidateStep(k)
        \/ _addBlock(k)
        \/ Settle(k)
        \/ AllSettled(k)

Start ==
    \/ \E ms \in ClockTicks : initializeChain(ms)
    \/ \E address \in Addresses, star \in Stars, ms \in ClockTicks :
           \E message \in Messages[address] :
               \E signature \in Signatures(message) :
                   submitStar(address, message, signature, star, ms)
    \/ validateChain
    \/ \E address \in Addresses, ms \in ClockTicks :
           requestMessageOwnershipVerification(address, ms)
    \/ getChainHeight
    \/ \E hash \in Hashes : getBlockByHash(hash)
    \/ \E h \in -1..MaxChain : getBlockByHeight(h)
    \/ \E address \in Addresses \cup {Undefined} : getStarsByWalletAddress(address)

Next == Start \/ Resume

Spec == Init /\ [][Next]_vars

\* the continuation of the k-th suspended call
ResumeAt(k) ==
    /\ k <= Len(calls)
    /\ \/ ValidateStep(k)
       \/ _addBlock(k)
       \/ Settle(k)
       \/ AllSettled(k)

\* the job queue runs every continuation that is ready: none of the
\* suspended calls is passed over for ever
FairSpec == Spec /\ \A k \in 1..MaxInFlight : WF_vars(ResumeAt(k))

\* the calls made one at a time: no call starts while another is suspended
Idle == calls = <<>>

NextSeq == (Idle /\ Start) \/ Resume

SpecSeq == Init /\ [][NextSeq]_vars

\* one append at a time, the other calls free to interleave with it: no step
\* leaves two appends suspended
OneAppend == Cardinality(Appending') <= 1

NextOne == (Start /\ OneAppend) \/ Resume

SpecOne == Init /\ [][NextOne]_vars

\* The chain is a public field: a caller can overwrite a field of an entry.
\* One field of one entry of an untouched chain is overwritten, the hash
\* of the entry left as it is (or, for the hash, everything else).
Fields == {"height", "time", "previousBlockHash", "body", "payload", "hash"}

Tampered(block, field) ==
    CASE field = "height" -> [block EXCEPT !.height = block.height + 1]
      [] field = "time" -> [block EXCEPT !.time = <<"0">>]
      [] field = "previousBlockHash" ->
             [block EXCEPT !.previousBlockHash = <<"tampered">>]
      [] field = "body" -> [block EXCEPT !.body = CorruptBody]
      [] field = "payload" ->
             [block EXCEPT !.body = Encode([data |-> "tampered"])]
      [] field = "hash" -> [block EXCEPT !.hash = <<"tampered">>]

Tamper ==
    /\ \A i \in 1..Len(chain) : validate(chain[i])
    /\ \E k \in 1..Len(chain), field \in Fields :
           chain' = [chain EXCEPT ![k] = Tampered(chain[k], field)]
    /\ last' = NoCall
    /\ UNCHANGED <<height, calls>>

NextTamper == (Idle /\ Start) \/ Resume \/ (Idle /\ Tamper)

SpecTamper == Init /\ [][NextTamper]_vars

----------------------------------------------------------------------------
(* Properties *)

IsStar(block) == ~isGenesisBlock(block)

\* the chain holds one genesis entry, at index 0
OneGenesis ==
    /\ chain # <<>>
    /\ isGenesisBlock(chain[1])
    /\ \A i \in 2..Len(chain) : IsStar(chain[i])

\* entry i (from 0) has height i and refers to the hash of the entry before
Linked(i) ==
    /\ chain[i + 1].height = i
    /\ i > 0 => chain[i + 1].previousBlockHash = chain[i].hash

\* C1: submitStar calls that interleave at the await of validateChain leave
\* star entries at consecutive heights, each referring to the hash of the
\* entry before it, and no two entries of the chain with the same height
C1_ConcurrentSubmitStar ==
    OneGenesis =>
        /\ \A i \in 0..(Len(chain) - 1) : Linked(i)
        /\ \A i, j \in 1..Len(chain) :
               i # j => chain[i].height # chain[j].height

\* C2: the height field is chain.length - 1 in every state
C2_HeightIsLength == height = Len(chain) - 1

\* C3: when every call runs to completion before the next starts, entry i
\* has height i, every entry but the first refers to the hash of the entry
\* before it, and validateChain resolves with an empty list
C3_SequentialChainValid ==
    /\ height = Len(chain) - 1
    /\ \A i \in 0..(Len(chain) - 1) : Linked(i)
    /\ \A k \in 1..Len(calls) : calls[k].errorLog = <<>>
    /\ last.op = "validateChain" => last.status = "resolved" /\ last.value = <<>>

\* a full chain that validateChain has just found valid
C3_Witness ==
    /\ Len(chain) = MaxChain
    /\ last.op = "validateChain"
    /\ last.value = <<>>

\* C4: a non-empty chain starts with the genesis entry, of height 0 and
\* without a previous hash, whatever was submitted before it was appended
C4_GenesisFirst ==
    chain # <<>> =>
        /\ isGenesisBlock(chain[1])
        /\ chain[1].height = 0
        /\ chain[1].previousBlockHash = Null

\* a submitStar made before the genesis entry was appended has settled, with
\* the TypeError, and the genesis entry is in the chain
C4_Witness ==
    /\ chain # <<>>
    /\ last.op = "submitStar"
    /\ last.error = "TypeError"

\* the seconds of a reading of the clock
Seconds(ms) == ms \div 1000

\* C5: submitStar with a challenge of time T and its valid signature, called
\* when the clock reads C, is rejected for its age, the chain untouched, when
\* C - T > 300, and otherwise is not rejected: it resolves with an entry that
\* it appended
C5_TimeWindow ==
    [][/\ \A address \in Addresses, star \in Stars :
            \A ms \in ClockTicks, issued \in IssueTicks :
                LET message == ChallengeMessage(address, issued)
                IN  submitStar(address, message, Sign(message, address), star, ms)
                        => IF Seconds(ms) - Seconds(issued) > 300
                           THEN /\ last'.op = "submitStar"
                                /\ last'.status = "rejected"
                                /\ last'.error = "Exceed time limit"
                                /\ chain' = chain
                           ELSE calls' # calls
       /\ \A k \in 1..Len(calls) :
            (Settle(k) /\ calls[k].op = "submitStar")
                => /\ last'.status = "resolved"
                   /\ \E i \in 1..Len(chain) : chain[i] = last'.value]_vars

\* C6: submitStar with a message that is no challenge is rejected, whatever
\* the signature (stated for a chain that has its genesis entry)
C6_MalformedRejected ==
    [][\A address \in Addresses, star \in Stars, ms \in ClockTicks :
          \A message \in Messages[address] :
              \A signature \in Signatures(message) :
                  (/\ ~IsChallenge(message)
                   /\ chain # <<>>
                   /\ submitStar(address, message, signature, star, ms))
                      => /\ last'.op = "submitStar"
                         /\ last'.status = "rejected"
                         /\ calls' = calls]_vars

SignatureErrors == {"Message verification failed", "verify threw"}

\* C7: a submitStar whose signature the verifier does not accept (it
\* answers false, or throws) is rejected with that failure and goes no
\* further, and no rejection of a submitStar changes the chain or the height
C7_RejectionLeavesChain ==
    [][/\ (last'.op = "submitStar" /\ last'.status = "rejected")
            => (chain' = chain /\ height' = height)
       /\ (last'.op = "submitStar" /\ last'.isVerified \in {"false", "throws"})
            => (last'.status = "rejected" /\ last'.error \in SignatureErrors)
       /\ \A k \in 1..Len(calls') :
            calls'[k].op = "submitStar" => calls'[k].isVerified = "true"]_vars

\* a submitStar rejected for its signature on a chain that holds a star
C7_Witness ==
    /\ Len(chain) >= 2
    /\ last.op = "submitStar"
    /\ last.error \in SignatureErrors

\* C8: getBlockByHash resolves with the first entry that has the hash, and
\* rejects when no entry has it
C8_GetBlockByHash ==
    [][\A hash \in Hashes :
          getBlockByHash(hash)
              => IF \E i \in 1..Len(chain) : chain[i].hash = hash
                 THEN /\ last'.status = "resolved"
                      /\ \E i \in 1..Len(chain) :
                            /\ chain[i] = last'.value
                            /\ chain[i].hash = hash
                            /\ \A j \in 1..(i - 1) : chain[j].hash # hash
                 ELSE last'.status = "rejected"]_vars

\* C9: when the payload of an entry does not decode, getStarsByWalletAddress
\* still resolves, with the matching payloads of the other entries
C9_DecodeFailureSkipped ==
    [][\A k \in 1..Len(calls) :
          (/\ AllSettled(k)
           /\ \E i \in 1..Len(calls[k].results) : ~calls[k].results[i].ok)
              => /\ last'.status = "resolved"
                 /\ last'.value = NotNull(calls[k].results)]_vars

\* the payloads of the star entries of a chain that the address owns
RECURSIVE StarsOf(_, _)
StarsOf(ch, address) ==
    IF ch = <<>> THEN <<>>
    ELSE IF IsStar(Head(ch)) /\ Owner(Decode(Head(ch).body).data) = address
         THEN <<Decode(Head(ch).body).data>> \o StarsOf(Tail(ch), address)
         ELSE StarsOf(Tail(ch), address)

\* C10: getStarsByWalletAddress resolves with the payloads of the entries the
\* address owns, in the order of the chain, the genesis payload never among
\* them, whatever the address
C10_StarsOfOwner ==
    [][\A k \in 1..Len(calls) :
          AllSettled(k)
              => /\ last'.status = "resolved"
                 /\ last'.value =
                        StarsOf(SubSeq(chain, 1, Len(calls[k].results)),
                                calls[k].address)]_vars

\* C11: getBlockByHeight(h) resolves with the entry at index h of the chain
\* when 0 <= h <= height, and with null when h is out of that range
C11_GetBlockByHeight ==
    [][\A h \in -1..MaxChain :
          getBlockByHeight(h)
              => /\ last'.status = "resolved"
                 /\ last'.value = IF 0 <= h /\ h <= height /\ h < Len(chain)
                                  THEN chain[h + 1]
                                  ELSE NullBlock]_vars

\* the elements of a list
Range(s) == {s[n] : n \in 1..Len(s)}

\* entry k (from 0) holds a field that was overwritten after it was sealed
TamperedAt(k) ==
    LET block == chain[k + 1]
    IN  \/ block.height # k
        \/ block.time = <<"0">>
        \/ block.previousBlockHash = <<"tampered">>
        \/ block.body = CorruptBody
        \/ block.body = Encode([data |-> "tampered"])
        \/ block.hash = <<"tampered">>

\* C12: on a chain built by sequential appends, after a field of entry k
\* (height, time, previousBlockHash, payload) was overwritten without its
\* hash recomputed, or only its hash was overwritten, validateChain reports k
C12_TamperReported ==
    (last.op = "validateChain" /\ last.status = "resolved")
        => \A k \in 0..(Len(chain) - 1) : TamperedAt(k) => k \in Range(last.value)

\* validateChain has reported an overwritten entry that has a successor
C12_Witness ==
    /\ last.op = "validateChain"
    /\ last.status = "resolved"
    /\ \E k \in 0..(Len(chain) - 2) : TamperedAt(k) /\ k \in Range(last.value)

\* C13: an _addBlock whose validateChain resolved with at least one index
\* appends nothing, leaves the height as it is, and rejects its caller with
\* 'Invalid blockchain'
C13_RefusesBrokenChain ==
    [][\A k \in 1..Len(calls) :
          /\ (/\ calls[k].pc = "addBlock"
              /\ Len(calls[k].errorLog) > 0
              /\ _addBlock(k))
                 => /\ chain' = chain
                    /\ height' = height
                    /\ calls'[k].error = "Invalid blockchain"
          /\ (Settle(k) /\ calls[k].error = "Invalid blockchain")
                 => /\ last'.status = "rejected"
                    /\ last'.error = "Invalid blockchain"
                    /\ chain' = chain
                    /\ height' = height]_vars

\* a submitStar was rejected because its validateChain had reported an index
C13_Witness ==
    /\ last.op = "submitStar"
    /\ last.status = "rejected"
    /\ last.error = "Invalid blockchain"
    /\ Len(chain) >= 2

\* C14: initializeChain called in a state where height >= 0 returns at once:
\* it appends nothing, starts no append, and leaves chain and height as
\* they are
C14_InitializeChainIdempotent ==
    [][\A ms \in ClockTicks :
          (height >= 0 /\ initializeChain(ms))
              => /\ chain' = chain
                 /\ height' = height
                 /\ calls' = calls
                 /\ last'.op = "initializeChain"
                 /\ last'.status = "resolved"]_vars

\* initializeChain has returned at once on a chain that has its genesis
\* entry, while other calls were suspended
C14_Witness ==
    /\ height >= 0
    /\ last.op = "initializeChain"
    /\ last.status = "resolved"
    /\ Len(calls) = MaxInFlight

\* C15: the chain is append-only: over every step of every operation the
\* chain before the step is a prefix of the chain after it, so that no entry
\* is removed and no field of an entry in the chain changes
C15_AppendOnly ==
    [][/\ Len(chain) <= Len(chain')
       /\ SubSeq(chain', 1, Len(chain)) = chain]_vars

\* entries were appended after the genesis entry and another append is
\* suspended, about to push
C15_Witness ==
    /\ Len(chain) = MaxChain - 1
    /\ IsStar(chain[Len(chain)])
    /\ \E k \in 1..Len(calls) : calls[k].pc = "addBlock"

\* entry i (from 0) has a successor that does not refer to its hash
BrokenLink(i) ==
    /\ i + 1 < Len(chain)
    /\ chain[i + 2].previousBlockHash # chain[i + 1].hash

\* the list is strictly increasing and holds the index i exactly when entry
\* i fails its own validate() or the link to its successor is broken
IsReport(errorLog) ==
    /\ \A a, b \in 1..Len(errorLog) : a < b => errorLog[a] < errorLog[b]
    /\ Range(errorLog) \subseteq 0..(Len(chain) - 1)
    /\ \A i \in 0..(Len(chain) - 1) :
           i \in Range(errorLog) <=> (~validate(chain[i + 1]) \/ BrokenLink(i))

\* C16: validateChain resolves with a strictly increasing list in which i
\* appears exactly when entry i fails validate() or has a successor whose
\* previousBlockHash is not its hash: a broken link is reported as i
C16_ReportedIndices ==
    /\ (last.op = "validateChain" /\ last.status = "resolved")
           => IsReport(last.value)
    /\ \A k \in 1..Len(calls) :
           calls[k].pc = "addBlock" => IsReport(calls[k].errorLog)

\* validateChain has reported a valid entry for the broken link to its
\* successor, and the successor for its own validate()
C16_Witness ==
    /\ last.op = "validateChain"
    /\ last.status = "resolved"
    /\ Len(last.value) = 2
    /\ validate(chain[last.value[1] + 1])
    /\ BrokenLink(last.value[1])
    /\ ~validate(chain[last.value[2] + 1])

\* entry i (from 0) has its height, time and hash, and, unless it is a
\* genesis entry, its previous hash
Sealed(i) ==
    LET block == chain[i + 1]
    IN  /\ block.height = i
        /\ block.time # <<"0">> /\ block.time # <<>>
        /\ block.hash # Null
        /\ isGenesisBlock(block) \/ block.previousBlockHash # Null

\* C17: with one append in flight at a time and readers interleaving with
\* it, every entry of the chain is complete in every state, and every
\* validateChain resolves with an empty list
C17_NoPartialAppend ==
    /\ \A i \in 0..(Len(chain) - 1) : Sealed(i)
    /\ (last.op = "validateChain" /\ last.status = "resolved")
           => last.value = <<>>

\* validateChain has resolved, with an empty list, while a submitStar that
\* has sealed its block has not pushed it yet
C17_Witness ==
    /\ last.op = "validateChain"
    /\ last.status = "resolved"
    /\ last.value = <<>>
    /\ \E k \in 1..Len(calls) :
           /\ calls[k].op = "submitStar"
           /\ calls[k].pc \in {"validate", "addBlock"}
           /\ calls[k].block.height = Len(chain)

\* C18: the chain holds at most one genesis entry, however the calls of
\* initializeChain interleave with the one the constructor made
C18_OneGenesisEntry ==
    Cardinality({i \in 1..Len(chain) : isGenesisBlock(chain[i])}) <= 1

\* validateChain, run now on the chain as it is, would report an index
ChainBroken ==
    \E i \in 0..(Len(chain) - 1) : ~validate(chain[i + 1]) \/ BrokenLink(i)

\* C19: once the chain is in a state for which validateChain reports an
\* index, no append succeeds any more: the chain keeps its length
C19_BrokenChainStaysFrozen ==
    [][ChainBroken => Len(chain') = Len(chain)]_vars

\* the promise with the identity id is that of a suspended submitStar
Pending(id) ==
    \E k \in 1..Len(calls) : calls[k].op = "submitStar" /\ calls[k].id = id

\* the promise with the identity id, of a submitStar, has just settled
HasSettled(id) ==
    /\ last.op = "submitStar"
    /\ last.id = id
    /\ last.status \in {"resolved", "rejected"}

\* C20: when the continuations that are ready are run, every suspended
\* submitStar settles: its promise resolves with an entry or rejects with
\* an error, whatever other calls are started around it
C20_SubmitStarSettles ==
    \A id \in 1..MaxInFlight : Pending(id) ~> HasSettled(id)

\* a submitStar that was suspended has resolved with the entry it appended
\* while a validateChain is in its loop
C20_Witness ==
    /\ last.op = "submitStar"
    /\ last.id # 0
    /\ last.status = "resolved"
    /\ last.value = chain[Len(chain)]
    /\ \E k \in 1..Len(calls) :
           calls[k].op = "validateChain" /\ calls[k].i >= 1

====
